---- MODULE Spec2Model ----
(***************************************************************************)
(* A model of public/app.js, the focus/distraction time tracker.           *)
(*                                                                         *)
(* The program is one event loop.  Every action below is one run of a      *)
(* handler from its start to its first await (or to its end), or the       *)
(* completion of an awaited operation together with the continuation that  *)
(* the completion resumes.                                                 *)
(*                                                                         *)
(* Times are milliseconds.  The clock moves in steps of Quantum ms.        *)
(* A missing value (JavaScript null or undefined) is NULL for strings and  *)
(* identities, NoTime for a Date, << >> for a stored string, and a record  *)
(* with exists = FALSE for a stored document.                              *)
(*                                                                         *)
(* Only the record of one calendar day is modelled: getTodayKey() returns  *)
(* the same key throughout.                                                *)
(***************************************************************************)
EXTENDS Integers, Sequences, FiniteSets, TLC

\* ------------------------------------------------------------------ bounds
Quantum == 500          \* ms per clock step
MaxSessionTime == 4     \* clock steps taken in the session specifications
MaxCalls == 3           \* handleStateChange calls logged in the session specifications
MaxEvents == 3          \* clock steps, clicks, identity changes, page loads, redeliveries
                        \* and rejected writes in a run of the full specification

\* ------------------------------------------------------------ value spaces
NULL == "null"
NoTime == -1
Users == {"A"}
States == {"focus", "distract", NULL}

VARIABLES
  now,                       \* Date.now(), the client clock
  totalFocusedMs,            \* app.js:8
  totalDistractedMs,         \* app.js:9
  currentState,              \* app.js:10
  lastStateChangeTimestamp,  \* app.js:11, NoTime when null or undefined
  currentUser,               \* app.js:13, a uid or NULL
  firestoreListener,         \* app.js:14, the uid whose record the last listener watches, or NULL
  listening,                 \* whether that listener is still attached (not yet unsubscribed)
  subscriptions,             \* number of onSnapshot listeners that are attached
  tickInterval,              \* app.js:15, NULL, "running" or "cleared" (a stale handle)
  activeTicks,               \* number of interval timers that are running
  db,                        \* app.js:5, "opening", "open" or "failed"
  authKnown,                 \* whether onAuthStateChanged has fired since the page loaded
  localRecord,               \* IndexedDB: the record stored under today's key
  pendingReads,              \* results of the reads of handleLoggedOutUser not yet called back
  dataToMigrate,             \* sessionStorage slot 'dataToMigrate': << >> or <<JSON text>>
  cloud,                     \* Firestore: uid -> today's record
  cloudWrites,               \* recordRef.set calls awaiting the server, oldest first
  inbox,                     \* snapshots on their way to the listener, oldest first
  migration,                 \* the promise of the last migrating snapshot handler
  display,                   \* the text content of focusTimeEl and distractTimeEl
  events,                    \* observer: the user and environment events so far
  sessionOrigin,             \* observer: where the in-memory totals were adopted from
  callLog,                   \* observer: the handleStateChange calls since the reset
  stagedShown,               \* observer: what the local record displayed when it was staged
  mergedPayload              \* observer: the payload of the last merge write, << >> if none

session == <<totalFocusedMs, totalDistractedMs, currentState, lastStateChangeTimestamp>>
ticker == <<tickInterval, activeTicks>>
local == <<db, localRecord, pendingReads>>
remote == <<cloud, cloudWrites, inbox, firestoreListener, listening, migration>>
handoff == <<stagedShown, mergedPayload>>
vars == <<now, session, currentUser, ticker, local, authKnown, dataToMigrate, remote,
          subscriptions, display, events, sessionOrigin, callLog, handoff>>

\* ----------------------------------------------------------------- records
\* A stored document.  lastStateChangeTimestamp is a time in the cloud, an ISO
\* string (<<t>>) or null (<< >>) in the local store.
Rec(f, d, s, t) ==
  [exists |-> TRUE, totalFocusedMs |-> f, totalDistractedMs |-> d,
   currentState |-> s, lastStateChangeTimestamp |-> t]

NoLocalRecord == [exists |-> FALSE, totalFocusedMs |-> 0, totalDistractedMs |-> 0,
                  currentState |-> NULL, lastStateChangeTimestamp |-> << >>]

NoCloudRecord == [exists |-> FALSE, totalFocusedMs |-> 0, totalDistractedMs |-> 0,
                  currentState |-> NULL, lastStateChangeTimestamp |-> NoTime]

\* Date.prototype.toISOString and new Date(isoString): the string names the instant.
toISOString(t) == <<t>>
DateFromISO(str) == str[1]

\* JSON.stringify and JSON.parse of the staged object.
JSONstringify(obj) == <<obj>>
JSONparse(text) == text[1]

\* firebase.firestore.FieldValue.serverTimestamp(): a sentinel the server replaces.
serverTimestamp == <<"serverTimestamp">>

\* -------------------------------------------------------------- pure logic
\* handleStateChange, lines 149-153: the elapsed time is banked into the bucket
\* of the outgoing state.  No clamp is applied to elapsed.
\* Mutant: the state check is dropped and any elapsed time is banked as focus.
FoldedFocusAnyState(t) ==
  IF lastStateChangeTimestamp # NoTime
  THEN totalFocusedMs + (t - lastStateChangeTimestamp) ELSE totalFocusedMs

FoldedFocus(t) ==
  IF currentState # NULL /\ lastStateChangeTimestamp # NoTime /\ currentState = "focus"
  THEN totalFocusedMs + (t - lastStateChangeTimestamp) ELSE totalFocusedMs

\* Mutant: the distract bucket is not banked.
FoldedDistractDropped(t) == totalDistractedMs

FoldedDistract(t) ==
  IF currentState # NULL /\ lastStateChangeTimestamp # NoTime /\ currentState = "distract"
  THEN totalDistractedMs + (t - lastStateChangeTimestamp) ELSE totalDistractedMs

\* updateDisplay, lines 219-226.
\* Mutant: the display shows the stored total only.
DisplayFocusStored(t) == totalFocusedMs

DisplayFocus(t) ==
  LET elapsed == t - lastStateChangeTimestamp
  IN  IF currentState # NULL /\ lastStateChangeTimestamp # NoTime /\ currentState = "focus"
      THEN totalFocusedMs + elapsed ELSE totalFocusedMs

DisplayDistract(t) ==
  LET elapsed == t - lastStateChangeTimestamp
  IN  IF currentState # NULL /\ lastStateChangeTimestamp # NoTime /\ currentState = "distract"
      THEN totalDistractedMs + elapsed ELSE totalDistractedMs

\* formatTime, lines 265-269: <<hours, minutes, seconds>>, each then padded to two digits.
formatTime(ms) ==
  LET clamped == IF ms < 0 THEN 0 ELSE ms
      s == clamped \div 1000
  IN  <<s \div 3600, (s % 3600) \div 60, s % 60>>

\* Mutant: the object is built from the totals as they were before the fold.
getCurrentStateAsObjectStale(forLocalDb, forFirestore, f, d, s, t) ==
  Rec(totalFocusedMs, totalDistractedMs, s,
      IF forFirestore THEN serverTimestamp
      ELSE IF forLocalDb /\ t # NoTime THEN toISOString(t)
      ELSE << >>)

\* getCurrentStateAsObject, lines 273-289, of the session <<f, d, s, t>>.
getCurrentStateAsObject(forLocalDb, forFirestore, f, d, s, t) ==
  Rec(f, d, s,
      IF forFirestore THEN serverTimestamp
      ELSE IF forLocalDb /\ t # NoTime THEN toISOString(t)
      ELSE << >>)

\* clearInterval(tickInterval), lines 64 and 254, as values.
ClearedHandle(h) == IF h = NULL THEN NULL ELSE "cleared"
ClearedTicks(h, n) == IF h = "running" THEN n - 1 ELSE n

\* startTick, lines 253-256: the timers running after it, from handle h and n timers.
StartedTicks(h, n) == ClearedTicks(h, n) + 1

\* if (firestoreListener) firestoreListener(), line 63: the listeners attached
\* after it, from handle h, whether its listener is still attached, and n
\* attached listeners.  Calling the handle of a detached listener does nothing.
\* Mutant: the listener is left attached.
UnsubscribedNever(h, on, n) == n

Unsubscribed(h, on, n) == IF h # NULL /\ on THEN n - 1 ELSE n

\* What the listener is handed for a document: doc.data() of a snapshot.  A
\* server timestamp that is still pending reads as null.
SnapshotOf(doc) == doc
PendingSnapshotOf(data) ==
  Rec(data.totalFocusedMs, data.totalDistractedMs, data.currentState, NoTime)

\* What updateDisplay shows, at time t, of a session adopted from local record rec.
ShownOf(rec, t) ==
  LET ts == IF rec.lastStateChangeTimestamp # << >>
            THEN DateFromISO(rec.lastStateChangeTimestamp) ELSE NoTime
      elapsed == IF rec.currentState # NULL /\ ts # NoTime THEN t - ts ELSE 0
  IN  [focus |-> rec.totalFocusedMs + (IF rec.currentState = "focus" THEN elapsed ELSE 0),
       distract |-> rec.totalDistractedMs
                      + (IF rec.currentState = "distract" THEN elapsed ELSE 0)]

\* --------------------------------------------------------------- initial state
Blank == [focus |-> formatTime(0), distract |-> formatTime(0)]

\* What the stores may hold when the page loads: records left by earlier
\* sessions of the same day.
LocalRecordsAtLoad ==
  {NoLocalRecord,
   Rec(Quantum, 0, "focus", toISOString(0))}

CloudRecordsAtLoad ==
  {NoCloudRecord,
   Rec(Quantum, 2 * Quantum, "distract", 0)}

\* The object the sign-in click stages, lines 182-186.
StagedFrom(localData) ==
  JSONstringify([totalFocusedMs |-> localData.totalFocusedMs,
                 totalDistractedMs |-> localData.totalDistractedMs,
                 currentState |-> localData.currentState])

\* The slot is empty, or holds what a sign-in click of the page before staged.
SlotsAtLoad(localData) ==
  {<< >>} \cup
  IF localData.exists /\ (localData.totalFocusedMs > 0 \/ localData.totalDistractedMs > 0)
  THEN {StagedFrom(localData)} ELSE {}

\* The script has just been loaded, lines 1-15 and 314.
Init ==
  /\ now = 0
  /\ totalFocusedMs = 0
  /\ totalDistractedMs = 0
  /\ currentState = NULL
  /\ lastStateChangeTimestamp = NoTime
  /\ currentUser = NULL
  /\ firestoreListener = NULL
  /\ listening = FALSE
  /\ tickInterval = NULL
  /\ activeTicks = 0
  /\ db = "opening"
  /\ authKnown = FALSE
  /\ localRecord \in LocalRecordsAtLoad
  /\ pendingReads = << >>
  /\ dataToMigrate \in SlotsAtLoad(localRecord)
  /\ cloud \in [Users -> CloudRecordsAtLoad]
  /\ cloudWrites = << >>
  /\ inbox = << >>
  /\ migration = "none"
  /\ display = Blank
  /\ events = 0
  /\ sessionOrigin = "reset"
  /\ callLog = << >>
  /\ subscriptions = 0
  /\ stagedShown = (IF dataToMigrate = << >> THEN << >> ELSE <<ShownOf(localRecord, now)>>)
  /\ mergedPayload = << >>

\* ------------------------------------------------------------------- the clock
\* A user or environment event is counted against the bound of the run.
Event ==
  /\ events < MaxEvents
  /\ events' = events + 1

ClockAdvance ==
  /\ Event
  /\ now' = now + Quantum
  /\ UNCHANGED <<session, currentUser, ticker, local, authKnown, dataToMigrate, remote,
                 display, sessionOrigin, callLog>>
  /\ UNCHANGED <<subscriptions, handoff>>

\* --------------------------------------------------------------- helper steps
\* resetStateInMemory, lines 258-263.
resetStateInMemory ==
  /\ totalFocusedMs' = 0
  /\ totalDistractedMs' = 0
  /\ currentState' = NULL
  /\ lastStateChangeTimestamp' = NoTime

\* startTick, lines 253-256.
startTick ==
  /\ tickInterval' = "running"
  /\ activeTicks' = StartedTicks(tickInterval, activeTicks)

\* Mutant: without a database the anonymous path starts no tick.
handleLoggedOutUserWaiting(d, h, n) ==
  IF d # "open"
  THEN /\ tickInterval' = h
       /\ activeTicks' = n
       /\ pendingReads' = pendingReads
  ELSE /\ pendingReads' = Append(pendingReads, localRecord)
       /\ tickInterval' = h
       /\ activeTicks' = n

\* handleLoggedOutUser, lines 79-88, entered with database state d, timer handle h
\* and n running timers: without a database the tick starts, with one a read of
\* today's record is issued.  The read sees the store as it is when it is issued.
handleLoggedOutUser(d, h, n) ==
  IF d # "open"
  THEN /\ tickInterval' = "running"
       /\ activeTicks' = StartedTicks(h, n)
       /\ pendingReads' = pendingReads
  ELSE /\ pendingReads' = Append(pendingReads, localRecord)
       /\ tickInterval' = h
       /\ activeTicks' = n

\* handleLoggedInUser, lines 106-109: the listener is attached; the first snapshot
\* is on its way.
handleLoggedInUser(user) ==
  /\ firestoreListener' = user
  /\ listening' = TRUE
  /\ inbox' = <<SnapshotOf(cloud[user])>>

\* A cloud write as issued: recordRef.set(data) under uid, with the continuation
\* its completion resumes ("merge", "initial" or "user").
CloudWrite(uid, kind, data, origin) ==
  [uid |-> uid, kind |-> kind, data |-> data, origin |-> origin]

\* The listener attached to uid's record sees a local write at once.
EchoTo(uid, box, data) ==
  IF listening /\ firestoreListener = uid THEN Append(box, PendingSnapshotOf(data)) ELSE box

\* ------------------------------------------------------------- user actions
\* handleStateChange(newState), lines 148-167, on the program's own state.
StateChange(newState) ==
  LET f == FoldedFocus(now)
      d == FoldedDistract(now)
  IN
  /\ totalFocusedMs' = f
  /\ totalDistractedMs' = d
  /\ currentState' = newState
  /\ lastStateChangeTimestamp' = now
  /\ IF currentUser # NULL
     THEN LET data == getCurrentStateAsObject(FALSE, TRUE, f, d, newState, now)
          IN  /\ cloudWrites' = Append(cloudWrites,
                                       CloudWrite(currentUser, "user", data, sessionOrigin))
              /\ inbox' = EchoTo(currentUser, inbox, data)
              /\ UNCHANGED localRecord
     ELSE /\ localRecord' = IF db = "open"
                            THEN getCurrentStateAsObject(TRUE, FALSE, f, d, newState, now)
                            ELSE localRecord
          /\ UNCHANGED <<cloudWrites, inbox>>
  /\ UNCHANGED <<now, currentUser, ticker, db, pendingReads, authKnown, dataToMigrate,
                 cloud, firestoreListener, listening, migration, display, sessionOrigin>>
  /\ UNCHANGED <<subscriptions, handoff>>

\* A click on greenBtn, redBtn or stopBtn, lines 309-311.
handleStateChange(newState) ==
  /\ Event
  /\ StateChange(newState)
  /\ UNCHANGED callLog

\* googleSignInBtn click, lines 170-191: today's local record is read and, if it
\* holds time, staged for the migration.  The sign-in that follows is the
\* identity change or the page load that the authentication provider causes.
googleSignInClick ==
  /\ Event
  /\ currentUser = NULL
  /\ dataToMigrate' =
       IF /\ db = "open"
          /\ localRecord.exists
          /\ (localRecord.totalFocusedMs > 0 \/ localRecord.totalDistractedMs > 0)
       THEN StagedFrom(localRecord)
       ELSE dataToMigrate
  /\ UNCHANGED <<now, session, currentUser, ticker, local, authKnown, remote, display,
                 sessionOrigin, callLog>>
  /\ stagedShown' = (IF dataToMigrate' = dataToMigrate THEN stagedShown
                     ELSE <<ShownOf(localRecord, now)>>)
  /\ UNCHANGED <<subscriptions, mergedPayload>>

\* Mutant: the tick banks the elapsed time it displays.
updateDisplayBanking ==
  /\ UNCHANGED events
  /\ activeTicks > 0
  /\ display' = [focus |-> formatTime(DisplayFocus(now)),
                 distract |-> formatTime(DisplayDistract(now))]
  /\ totalFocusedMs' = DisplayFocus(now)
  /\ totalDistractedMs' = DisplayDistract(now)
  /\ lastStateChangeTimestamp' = IF lastStateChangeTimestamp = NoTime THEN NoTime ELSE now
  /\ UNCHANGED <<now, currentState, currentUser, ticker, local, authKnown, dataToMigrate,
                 remote, sessionOrigin, callLog>>
  /\ UNCHANGED <<subscriptions, handoff>>

\* updateDisplay, lines 218-234, run by the interval timer.
updateDisplay ==
  /\ UNCHANGED events
  /\ activeTicks > 0
  /\ display' = [focus |-> formatTime(DisplayFocus(now)),
                 distract |-> formatTime(DisplayDistract(now))]
  /\ UNCHANGED <<now, session, currentUser, ticker, local, authKnown, dataToMigrate,
                 remote, sessionOrigin, callLog>>
  /\ UNCHANGED <<subscriptions, handoff>>

\* ---------------------------------------------------------- identity changes
\* handleAuthStateChange(user), lines 62-76, called by onAuthStateChanged: once
\* after the page has loaded, and then whenever the identity changes.
handleAuthStateChange(user) ==
  /\ Event
  /\ ~authKnown \/ user # currentUser
  /\ authKnown' = TRUE
  /\ resetStateInMemory
  /\ sessionOrigin' = "reset"
  /\ callLog' = << >>
  /\ currentUser' = user
  /\ IF user # NULL
     THEN /\ handleLoggedInUser(user)
          /\ tickInterval' = ClearedHandle(tickInterval)
          /\ activeTicks' = ClearedTicks(tickInterval, activeTicks)
          /\ UNCHANGED pendingReads
     ELSE /\ handleLoggedOutUser(db, ClearedHandle(tickInterval),
                                 ClearedTicks(tickInterval, activeTicks))
          /\ listening' = FALSE
          /\ inbox' = << >>
          /\ UNCHANGED firestoreListener
  /\ UNCHANGED <<now, db, localRecord, dataToMigrate, cloud, cloudWrites, migration,
                 display>>
  /\ subscriptions' = (IF user # NULL THEN 1 ELSE 0)
                      + Unsubscribed(firestoreListener, listening, subscriptions)
  /\ UNCHANGED handoff

\* ------------------------------------------------------------ the local store
\* indexedDB.open succeeds, lines 44-50.
dbOpenSuccess ==
  /\ UNCHANGED events
  /\ db = "opening"
  /\ db' = "open"
  /\ IF currentUser = NULL
     THEN handleLoggedOutUser("open", tickInterval, activeTicks)
     ELSE UNCHANGED <<ticker, pendingReads>>
  /\ UNCHANGED <<now, session, currentUser, localRecord, authKnown, dataToMigrate,
                 remote, display, sessionOrigin, callLog>>
  /\ UNCHANGED <<subscriptions, handoff>>

\* indexedDB.open fails, lines 51-58.
dbOpenError ==
  /\ UNCHANGED events
  /\ db = "opening"
  /\ db' = "failed"
  /\ IF currentUser = NULL
     THEN handleLoggedOutUser("failed", tickInterval, activeTicks)
     ELSE UNCHANGED <<ticker, pendingReads>>
  /\ UNCHANGED <<now, session, currentUser, localRecord, authKnown, dataToMigrate,
                 remote, display, sessionOrigin, callLog>>
  /\ UNCHANGED <<subscriptions, handoff>>

\* req.onsuccess of handleLoggedOutUser, lines 89-98.
localReadSuccess ==
  /\ UNCHANGED events
  /\ pendingReads # << >>
  /\ LET data == Head(pendingReads)
     IN  IF data.exists
         THEN /\ totalFocusedMs' = data.totalFocusedMs
              /\ totalDistractedMs' = data.totalDistractedMs
              /\ currentState' = data.currentState
              /\ lastStateChangeTimestamp' =
                   IF data.lastStateChangeTimestamp # << >>
                   THEN DateFromISO(data.lastStateChangeTimestamp) ELSE NoTime
              /\ sessionOrigin' = "local"
         ELSE UNCHANGED <<session, sessionOrigin>>
  /\ pendingReads' = Tail(pendingReads)
  /\ startTick
  /\ UNCHANGED <<now, currentUser, db, localRecord, authKnown, dataToMigrate, remote,
                 display, callLog>>
  /\ UNCHANGED <<subscriptions, handoff>>

\* req.onerror of handleLoggedOutUser, lines 99-102.
localReadError ==
  /\ UNCHANGED events
  /\ pendingReads # << >>
  /\ pendingReads' = Tail(pendingReads)
  /\ startTick
  /\ UNCHANGED <<now, session, currentUser, db, localRecord, authKnown, dataToMigrate,
                 remote, display, sessionOrigin, callLog>>
  /\ UNCHANGED <<subscriptions, handoff>>

\* ----------------------------------------------------- the snapshot listener
\* The callback of recordRef.onSnapshot, lines 109-140, is handed the oldest
\* snapshot on its way.  recordRef is the record of the uid the listener was
\* attached for.  The three actions are its three branches, each up to its
\* first await.
SnapshotReady == listening /\ inbox # << >>

\* Mutant: the listener never finds a payload staged.
StagedNever(slot) == FALSE

\* if (migrationDataJSON), lines 112-113: a payload is staged in the slot.
Staged(slot) == slot # << >>

\* serverData?.field || 0, lines 119-120.
CloudField(doc, field) == IF doc.exists THEN doc[field] ELSE 0

\* Mutant: the merged record takes the payload's totals and drops the cloud's.
migratedDataOverwriting(serverData, payload) ==
  Rec(payload.totalFocusedMs, payload.totalDistractedMs, payload.currentState,
      serverTimestamp)

\* The merged record, lines 118-123.
migratedData(serverData, payload) ==
  Rec(CloudField(serverData, "totalFocusedMs") + payload.totalFocusedMs,
      CloudField(serverData, "totalDistractedMs") + payload.totalDistractedMs,
      payload.currentState,
      serverTimestamp)

\* Mutant: the staged payload is left in the slot while the write is awaited.
SlotKeptDuringMigration(slot) == slot

\* Lines 113-116: the staged payload is read and removed before the write is issued.
SlotAfterMigrationRead(slot) == << >>

\* Lines 113-125: a payload is staged; the merge write is issued and awaited.
onSnapshotMigrate ==
  /\ UNCHANGED events
  /\ SnapshotReady
  /\ Staged(dataToMigrate)
  /\ LET serverData == Head(inbox)
         data == migratedData(serverData, JSONparse(dataToMigrate))
     IN  /\ cloudWrites' = Append(cloudWrites,
                                  CloudWrite(firestoreListener, "merge", data, "local"))
         /\ inbox' = EchoTo(firestoreListener, Tail(inbox), data)
  /\ dataToMigrate' = SlotAfterMigrationRead(dataToMigrate)
  /\ migration' = "awaitSet"
  /\ UNCHANGED <<now, session, currentUser, ticker, local, authKnown, cloud,
                 firestoreListener, listening, display, sessionOrigin, callLog>>
  /\ mergedPayload' = dataToMigrate
  /\ UNCHANGED <<subscriptions, stagedShown>>

\* Lines 130-134 and 139: nothing is staged and the snapshot has data; it is
\* adopted and the tick starts.
onSnapshotAdopt ==
  /\ UNCHANGED events
  /\ SnapshotReady
  /\ ~Staged(dataToMigrate)
  /\ Head(inbox).exists
  /\ LET serverData == Head(inbox)
     IN  /\ totalFocusedMs' = serverData.totalFocusedMs
         /\ totalDistractedMs' = serverData.totalDistractedMs
         /\ currentState' = serverData.currentState
         /\ lastStateChangeTimestamp' = serverData.lastStateChangeTimestamp
  /\ sessionOrigin' = "cloud"
  /\ inbox' = Tail(inbox)
  /\ startTick
  /\ UNCHANGED <<now, currentUser, local, authKnown, dataToMigrate, cloud, cloudWrites,
                 firestoreListener, listening, migration, display, callLog>>
  /\ UNCHANGED <<subscriptions, handoff>>

\* Lines 135-136: nothing is staged and the snapshot has no data; the session as
\* it is in memory is written as the first record, and the write is awaited.
onSnapshotInitial ==
  /\ UNCHANGED events
  /\ SnapshotReady
  /\ ~Staged(dataToMigrate)
  /\ ~Head(inbox).exists
  /\ LET data == getCurrentStateAsObject(FALSE, TRUE, totalFocusedMs, totalDistractedMs,
                                         currentState, lastStateChangeTimestamp)
     IN  /\ cloudWrites' = Append(cloudWrites,
                                  CloudWrite(firestoreListener, "initial", data,
                                             sessionOrigin))
         /\ inbox' = EchoTo(firestoreListener, Tail(inbox), data)
  /\ UNCHANGED <<now, session, currentUser, ticker, local, authKnown, dataToMigrate,
                 cloud, firestoreListener, listening, migration, display, sessionOrigin,
                 callLog>>
  /\ UNCHANGED <<subscriptions, handoff>>

\* The cloud store may hand the listener the record's current state again.
snapshotRedelivered ==
  /\ Event
  /\ listening
  /\ inbox' = Append(inbox, SnapshotOf(cloud[firestoreListener]))
  /\ UNCHANGED <<now, session, currentUser, ticker, local, authKnown, dataToMigrate,
                 cloud, cloudWrites, firestoreListener, listening, migration, display,
                 sessionOrigin, callLog>>
  /\ UNCHANGED <<subscriptions, handoff>>

\* ------------------------------------------------------------ the cloud store
\* The record a write leaves on the server: the server sets the timestamp.
Applied(data, serverNow) ==
  Rec(data.totalFocusedMs, data.totalDistractedMs, data.currentState, serverNow)

\* The listener attached to uid's record is told of the record's new state.
NotifyTo(uid, box, doc) ==
  IF listening /\ firestoreListener = uid THEN Append(box, SnapshotOf(doc)) ELSE box

\* deleteLocalRecord, lines 298-306, resumed after the merge write (line 126):
\* no database, nothing is done; otherwise the delete commits or its
\* transaction fails.
deleteLocalRecord ==
  IF db # "open"
  THEN /\ UNCHANGED localRecord
       /\ migration' = "fulfilled"
  ELSE \/ /\ localRecord' = NoLocalRecord
          /\ migration' = "fulfilled"
       \/ /\ UNCHANGED localRecord
          /\ migration' = "rejected"

\* The oldest write reaches the server; the awaiting handler resumes: line 126
\* after the merge write, line 139 after the first-record write, the end of
\* handleStateChange after a user's write.
cloudWriteAck ==
  /\ UNCHANGED events
  /\ cloudWrites # << >>
  /\ LET w == Head(cloudWrites)
         doc == Applied(w.data, now)
     IN  /\ cloud' = [cloud EXCEPT ![w.uid] = doc]
         /\ inbox' = NotifyTo(w.uid, inbox, doc)
         /\ CASE w.kind = "merge" ->
                   /\ deleteLocalRecord
                   /\ UNCHANGED ticker
              [] w.kind = "initial" ->
                   /\ startTick
                   /\ UNCHANGED <<localRecord, migration>>
              [] OTHER ->
                   UNCHANGED <<ticker, localRecord, migration>>
  /\ cloudWrites' = Tail(cloudWrites)
  /\ UNCHANGED <<now, session, currentUser, db, pendingReads, authKnown, dataToMigrate,
                 firestoreListener, listening, display, sessionOrigin, callLog>>
  /\ UNCHANGED <<subscriptions, handoff>>

\* The oldest write is rejected; the awaiting handler ends with the rejection.
\* The listener sees the record without the write.
cloudWriteFail ==
  /\ Event
  /\ cloudWrites # << >>
  /\ LET w == Head(cloudWrites)
     IN  /\ inbox' = NotifyTo(w.uid, inbox, cloud[w.uid])
         /\ migration' = IF w.kind = "merge" THEN "rejected" ELSE migration
  /\ cloudWrites' = Tail(cloudWrites)
  /\ UNCHANGED <<now, session, currentUser, ticker, local, authKnown, dataToMigrate,
                 cloud, firestoreListener, listening, display, sessionOrigin, callLog>>
  /\ UNCHANGED <<subscriptions, handoff>>

\* ------------------------------------------------------------- the page load
\* The page is loaded again (the redirect of the sign-in flow, or a reload):
\* the script starts over, the stores and the sessionStorage slot persist.
pageLoad ==
  /\ Event
  /\ resetStateInMemory
  /\ currentUser' = NULL
  /\ firestoreListener' = NULL
  /\ listening' = FALSE
  /\ tickInterval' = NULL
  /\ activeTicks' = 0
  /\ db' = "opening"
  /\ authKnown' = FALSE
  /\ pendingReads' = << >>
  /\ cloudWrites' = << >>
  /\ inbox' = << >>
  /\ migration' = "none"
  /\ display' = Blank
  /\ sessionOrigin' = "reset"
  /\ callLog' = << >>
  /\ UNCHANGED <<now, localRecord, dataToMigrate, cloud>>
  /\ subscriptions' = 0
  /\ mergedPayload' = << >>
  /\ UNCHANGED stagedShown

\* ------------------------------------------------------------ specifications
Next ==
  \/ ClockAdvance
  \/ \E newState \in States : handleStateChange(newState)
  \/ googleSignInClick
  \/ updateDisplay

  \/ \E user \in Users \cup {NULL} : handleAuthStateChange(user)
  \/ dbOpenSuccess
  \/ dbOpenError
  \/ localReadSuccess
  \/ localReadError
  \/ onSnapshotMigrate
  \/ onSnapshotAdopt
  \/ onSnapshotInitial
  \/ snapshotRedelivered
  \/ cloudWriteAck
  \/ cloudWriteFail
  \/ pageLoad

Spec == Init /\ [][Next]_vars

\* ------------------------------------------------- the session on its own
\* The session specifications run the program without an identity change:
\* the user clicks, the clock moves, the local store opens or fails to open,
\* the tick displays.  Every call of handleStateChange is logged.
SessionClockAdvance ==
  /\ now < MaxSessionTime * Quantum
  /\ now' = now + Quantum
  /\ UNCHANGED <<session, currentUser, ticker, local, authKnown, dataToMigrate, remote,
                 display, events, sessionOrigin, callLog>>
  /\ UNCHANGED <<subscriptions, handoff>>

\* The clock is set back (a clock adjustment).
ClockBack ==
  /\ now >= Quantum
  /\ now' = now - Quantum
  /\ UNCHANGED <<session, currentUser, ticker, local, authKnown, dataToMigrate, remote,
                 display, events, sessionOrigin, callLog>>
  /\ UNCHANGED <<subscriptions, handoff>>

loggedStateChange(newState) ==
  /\ Len(callLog) < MaxCalls
  /\ StateChange(newState)
  /\ callLog' = Append(callLog, [at |-> now, to |-> newState])
  /\ UNCHANGED events

SessionNext ==
  \/ SessionClockAdvance
  \/ \E newState \in States : loggedStateChange(newState)
  \/ dbOpenError
  \/ updateDisplay

SpecSession == Init /\ [][SessionNext]_vars

SkewNext ==
  \/ SessionClockAdvance
  \/ ClockBack
  \/ \E newState \in States : loggedStateChange(newState)
  \/ dbOpenSuccess
  \/ localReadSuccess
  \/ updateDisplay

SpecSkew == Init /\ [][SkewNext]_vars

\* ==================================================================== claims
Last(seq) == seq[Len(seq)]

\* The time between logged calls that the session spent in state none.
RECURSIVE IdleMs(_)
IdleMs(log) ==
  IF Len(log) < 2 THEN 0
  ELSE IdleMs(SubSeq(log, 1, Len(log) - 1))
       + (IF log[Len(log) - 1].to = NULL THEN Last(log).at - log[Len(log) - 1].at ELSE 0)

\* C1 as stated: after calls at t0 < ... < tn from the reset session, with
\* nothing else interleaved, totalFocusedMs + totalDistractedMs = tn - t0.
ConservationAsClaimed ==
  callLog # << >> =>
    totalFocusedMs + totalDistractedMs = Last(callLog).at - callLog[1].at

\* C1 amended: after such calls totalFocusedMs + totalDistractedMs equals
\* tn - t0 less the time spent in state none, the intervals that follow a
\* setState(none); it is tn - t0 when no call but the last is setState(none).
Conservation ==
  callLog # << >> =>
    /\ totalFocusedMs + totalDistractedMs
         = (Last(callLog).at - callLog[1].at) - IdleMs(callLog)
    /\ (\A i \in 1..(Len(callLog) - 1) : callLog[i].to # NULL) =>
         totalFocusedMs + totalDistractedMs = Last(callLog).at - callLog[1].at

\* C1 witness: three calls, time banked in both buckets.
ConservationWitness ==
  /\ Len(callLog) = 3
  /\ callLog[1].at < callLog[2].at
  /\ callLog[2].at < callLog[3].at
  /\ totalFocusedMs > 0
  /\ totalDistractedMs > 0

\* C6 as stated: lastStateChangeTimestamp is present if and only if
\* currentState is not none.
TimestampIffActive ==
  (lastStateChangeTimestamp # NoTime) <=> (currentState # NULL)

\* C7 as stated: the totals are never negative, in memory and in the stores.
TotalsNeverNegative ==
  /\ totalFocusedMs >= 0
  /\ totalDistractedMs >= 0
  /\ localRecord.totalFocusedMs >= 0
  /\ localRecord.totalDistractedMs >= 0
  /\ \A u \in Users : cloud[u].totalFocusedMs >= 0 /\ cloud[u].totalDistractedMs >= 0
  /\ \A i \in 1..Len(cloudWrites) :
        /\ cloudWrites[i].data.totalFocusedMs >= 0
        /\ cloudWrites[i].data.totalDistractedMs >= 0

\* C8: at any time not before lastStateChangeTimestamp, the totals the display
\* tick computes are the totals a handleStateChange call at that time stores.
DisplayedEqualsFolded ==
  (lastStateChangeTimestamp = NoTime \/ now >= lastStateChangeTimestamp) =>
    /\ DisplayFocus(now) = FoldedFocus(now)
    /\ DisplayDistract(now) = FoldedDistract(now)

\* C8 witness: the tick has shown a second of focus of which the stored total
\* holds only a part.
DisplayedEqualsFoldedWitness ==
  /\ display.focus = <<0, 0, 1>>
  /\ currentState = "focus"
  /\ totalFocusedMs < 1000
  /\ DisplayFocus(now) >= 1000

\* C9: a setState(none) that follows a setState(none), at any later time,
\* leaves totalFocusedMs, totalDistractedMs and currentState as they were.
IdempotentStop ==
  [][ ( /\ callLog # << >>
        /\ Last(callLog).to = NULL
        /\ Len(callLog') = Len(callLog) + 1
        /\ Last(callLog').to = NULL )
      => ( /\ totalFocusedMs' = totalFocusedMs
           /\ totalDistractedMs' = totalDistractedMs
           /\ currentState = NULL
           /\ currentState' = NULL ) ]_vars

\* C9 witness: two stops in a row, the second later than the first, with time banked.
IdempotentStopWitness ==
  /\ Len(callLog) = 3
  /\ callLog[2].to = NULL
  /\ callLog[3].to = NULL
  /\ callLog[2].at < callLog[3].at
  /\ totalFocusedMs + totalDistractedMs > 0

\* A step that issues a cloud write of the given kind.
Issues(kind) ==
  /\ Len(cloudWrites') = Len(cloudWrites) + 1
  /\ Last(cloudWrites').kind = kind

\* A step in which the oldest cloud write, of the given kind, reaches the server
\* and the handler that awaited it resumes.
Acks(kind) ==
  /\ cloudWriteAck
  /\ Head(cloudWrites).kind = kind

\* C2 as stated: with no payload staged, no cloud write carries totals that
\* the session took from the local (anonymous) record.
NoLeakIntoIdentity ==
  (dataToMigrate = << >> /\ migration = "none") =>
    \A i \in 1..Len(cloudWrites) : cloudWrites[i].origin # "local"

\* What the merge rule makes of snapshot doc and the staged text.
MergedTotals(doc, text) ==
  [totalFocusedMs |-> (IF doc.exists THEN doc.totalFocusedMs ELSE 0)
                        + text[1].totalFocusedMs,
   totalDistractedMs |-> (IF doc.exists THEN doc.totalDistractedMs ELSE 0)
                           + text[1].totalDistractedMs,
   currentState |-> text[1].currentState]

WrittenTotals(w) ==
  [totalFocusedMs |-> w.data.totalFocusedMs,
   totalDistractedMs |-> w.data.totalDistractedMs,
   currentState |-> w.data.currentState]

\* The first half of C3: the merge write carries exactly the merged record,
\* with the server's timestamp.
MergeWriteExact ==
  Issues("merge") =>
    /\ listening /\ inbox # << >> /\ dataToMigrate # << >>
    /\ WrittenTotals(Last(cloudWrites')) = MergedTotals(Head(inbox), dataToMigrate)
    /\ Last(cloudWrites').data.lastStateChangeTimestamp = serverTimestamp
    /\ Last(cloudWrites').uid = firestoreListener

\* The local record is deleted by nothing but the resumption after a merge write.
DeletedOnlyAfterMerge ==
  (localRecord.exists /\ ~localRecord'.exists) =>
    (cloudWrites # << >> /\ Head(cloudWrites).kind = "merge" /\ cloudWrites' = Tail(cloudWrites))

\* C3 as stated: the merge write is exact, and when it has reached the server
\* the local record is deleted.
MigrationMergeRuleAsClaimed ==
  [][ /\ MergeWriteExact
      /\ DeletedOnlyAfterMerge
      /\ Acks("merge") => ~localRecord'.exists ]_vars

\* C3 amended: the merge write is exact; the local record is deleted only
\* after that write has reached the server, and it is deleted then if the
\* local store is open and the delete succeeds; when the local store is not
\* open (still opening, or failed to open) or the delete fails, it stays.
MigrationMergeRule ==
  [][ /\ MergeWriteExact
      /\ DeletedOnlyAfterMerge
      /\ Acks("merge") =>
           /\ (db = "open" /\ migration' = "fulfilled") => ~localRecord'.exists
           /\ (db # "open" \/ migration' # "fulfilled") => localRecord' = localRecord
           /\ db # "open" => migration' = "fulfilled" ]_vars

\* C3 witness: the cloud held (Q, 2Q, distract), the payload was (Q, 0, focus);
\* the cloud holds (2Q, 2Q, focus) and the local record is gone.
MigrationMergeRuleWitness ==
  /\ migration = "fulfilled"
  /\ ~localRecord.exists
  /\ dataToMigrate = << >>
  /\ cloud["A"].exists
  /\ cloud["A"].totalFocusedMs = 2 * Quantum
  /\ cloud["A"].totalDistractedMs = 2 * Quantum
  /\ cloud["A"].currentState = "focus"

\* C4: a merge write is issued only by a step that finds a payload staged and
\* leaves the slot empty, so a staged payload is merged at most once however
\* many snapshots are delivered.
MigrationOnce ==
  [][ Issues("merge") => (dataToMigrate # << >> /\ dataToMigrate' = << >>) ]_vars

\* C4 witness: while the merge write is in flight a further snapshot has been
\* delivered and adopted, and no second merge write was issued.
MigrationOnceWitness ==
  /\ migration = "awaitSet"
  /\ Len(cloudWrites) = 1
  /\ cloudWrites[1].kind = "merge"
  /\ sessionOrigin = "cloud"
  /\ dataToMigrate = << >>

\* C5 as stated: until the merge write and the local delete have both
\* succeeded the payload is still staged, so a failed migration can be retried.
PayloadKeptUntilMigrated ==
  migration \in {"awaitSet", "rejected"} => dataToMigrate # << >>

\* The totals and state of the session in memory.
SessionTotals(f, d, s) ==
  [totalFocusedMs |-> f, totalDistractedMs |-> d, currentState |-> s]

StoredTotals(doc) ==
  [totalFocusedMs |-> doc.totalFocusedMs, totalDistractedMs |-> doc.totalDistractedMs,
   currentState |-> doc.currentState]

\* A step that is a user's handleStateChange call.
UserCall == \E newState \in States : handleStateChange(newState)

\* C10 as stated: every handleStateChange call writes the record it produced
\* to the local store when anonymous and to the cloud when authenticated.
WriteOnEveryCallAsClaimed ==
  [][ UserCall =>
        IF currentUser # NULL
        THEN /\ Issues("user")
             /\ Last(cloudWrites').uid = currentUser
             /\ WrittenTotals(Last(cloudWrites'))
                  = SessionTotals(totalFocusedMs', totalDistractedMs', currentState')
        ELSE /\ localRecord'.exists
             /\ StoredTotals(localRecord')
                  = SessionTotals(totalFocusedMs', totalDistractedMs', currentState') ]_vars

\* C10 amended: a handleStateChange call writes the record it produced to the
\* cloud record of the current identity when authenticated, and to the local
\* store when anonymous and the local store is open; when anonymous and the
\* local store is not open (still opening, or failed to open) it writes
\* nothing.  When a user's cloud write has reached the server, the cloud
\* record has the write's totals and state.
WriteOnEveryCall ==
  [][ /\ UserCall =>
           IF currentUser # NULL
           THEN /\ Issues("user")
                /\ Last(cloudWrites').uid = currentUser
                /\ WrittenTotals(Last(cloudWrites'))
                     = SessionTotals(totalFocusedMs', totalDistractedMs', currentState')
                /\ localRecord' = localRecord
           ELSE IF db = "open"
           THEN /\ localRecord'.exists
                /\ StoredTotals(localRecord')
                     = SessionTotals(totalFocusedMs', totalDistractedMs', currentState')
                /\ cloudWrites' = cloudWrites
           ELSE /\ localRecord' = localRecord
                /\ cloudWrites' = cloudWrites
      /\ Acks("user") =>
           StoredTotals(cloud'[Head(cloudWrites).uid]) = WrittenTotals(Head(cloudWrites)) ]_vars

\* C10 witness: a user's write of state focus has reached the server, and the
\* cloud record holds the session's totals and state.
WriteOnEveryCallWitness ==
  /\ currentUser = "A"
  /\ migration = "none"
  /\ dataToMigrate = << >>
  /\ cloudWrites = << >>
  /\ currentState = "focus"
  /\ cloud["A"].exists
  /\ StoredTotals(cloud["A"])
       = SessionTotals(totalFocusedMs, totalDistractedMs, currentState)

\* A step that is an identity change: onAuthStateChanged fires, or the page loads.
IdentityChange == pageLoad \/ \E user \in Users \cup {NULL} : handleAuthStateChange(user)

\* C11 as stated: work begun under a previous identity takes no effect.  A
\* snapshot handler that resumes after a write to the record of an identity
\* other than the current one, and a local read of the anonymous path called
\* back while an identity is signed in, change neither the session, nor the
\* tick, nor a store record.
CancelledOnIdentityChange ==
  [][ /\ (cloudWriteAck /\ Head(cloudWrites).uid # currentUser) =>
           UNCHANGED <<session, ticker, localRecord>>
      /\ ((localReadSuccess \/ localReadError) /\ currentUser # NULL) =>
           UNCHANGED <<session, ticker, localRecord, cloudWrites>> ]_vars

\* The cloud writes to uid's record that are in flight.
Outstanding(uid) == {i \in 1..Len(cloudWrites) : cloudWrites[i].uid = uid}

\* C12 as stated: at most one cloud write to a record is in flight at any
\* time; none is issued while a merge write to the record is in flight.
CloudWritesDoNotRace ==
  \A uid \in Users : Cardinality(Outstanding(uid)) <= 1

\* At most one interval timer runs, and it is the one tickInterval names; at
\* most one listener is attached, and it is the one firestoreListener names.
AtMostOneTickAndSubscription ==
  /\ activeTicks <= 1
  /\ (activeTicks = 1) <=> (tickInterval = "running")
  /\ subscriptions <= 1
  /\ (subscriptions = 1) <=> listening
  /\ listening => firestoreListener = currentUser

\* A call of handleAuthStateChange.
AuthStep == \E user \in Users \cup {NULL} : handleAuthStateChange(user)

\* What a call of handleAuthStateChange leaves: the session reset, no listener
\* but the new identity's, no snapshot of an earlier listener on its way, and
\* no timer but the one the anonymous path starts at once without a database.
TornDown ==
  /\ totalFocusedMs' = 0 /\ totalDistractedMs' = 0
  /\ currentState' = NULL /\ lastStateChangeTimestamp' = NoTime
  /\ subscriptions' = (IF currentUser' # NULL THEN 1 ELSE 0)
  /\ listening' = (currentUser' # NULL)
  /\ inbox' = (IF currentUser' # NULL THEN <<SnapshotOf(cloud[currentUser'])>> ELSE << >>)
  /\ activeTicks' = (IF currentUser' = NULL /\ db # "open" THEN 1 ELSE 0)

\* C13: in every reachable state at most one display tick and at most one
\* cloud subscription are active, and every identity change, the first one
\* after the page has loaded included, cancels the subscription, stops the tick
\* and resets the session before the new identity's path sets up its own.
OneTickOneSubscription ==
  /\ []AtMostOneTickAndSubscription
  /\ [][AuthStep => TornDown]_vars

\* C13 witness: A was signed in and has signed out; A's listener is detached
\* and the one timer running is the anonymous path's.
OneTickOneSubscriptionWitness ==
  /\ authKnown /\ currentUser = NULL
  /\ firestoreListener = "A" /\ ~listening /\ subscriptions = 0
  /\ tickInterval = "running" /\ activeTicks = 1

\* A run of the listener's callback on a delivered snapshot.
SnapshotDelivered == onSnapshotMigrate \/ onSnapshotAdopt \/ onSnapshotInitial

\* C14: a snapshot delivered while a payload is staged is used for the
\* migration only: the merge write is issued, the session in memory is not
\* touched, no first record is written and the tick is not started, also when
\* the snapshot is empty.
MigrationTakesPriority ==
  [][ (SnapshotDelivered /\ dataToMigrate # << >>) =>
        /\ UNCHANGED <<session, ticker, sessionOrigin>>
        /\ Issues("merge")
        /\ cloudWrites' = Append(cloudWrites, Last(cloudWrites'))
        /\ inbox # << >> /\ SubSeq(inbox', 1, Len(inbox) - 1) = Tail(inbox) ]_vars

\* C14 witness: A has no cloud record; the empty first snapshot was used for
\* the migration: the one write in flight is the merge of the payload, the
\* session is as the identity change reset it and no tick runs.
MigrationTakesPriorityWitness ==
  /\ currentUser = "A" /\ ~cloud["A"].exists
  /\ migration = "awaitSet"
  /\ Len(cloudWrites) = 1 /\ cloudWrites[1].kind = "merge"
  /\ cloudWrites[1].data.totalFocusedMs = Quantum
  /\ totalFocusedMs = 0 /\ totalDistractedMs = 0 /\ currentState = NULL
  /\ activeTicks = 0

\* The callbacks the browser and the cloud client owe the program are made:
\* a read that was issued is called back with its result or its error, and a
\* snapshot on its way to an attached listener is delivered.
SpecLive ==
  /\ Init /\ [][Next]_vars
  /\ WF_vars(localReadSuccess \/ localReadError)
  /\ WF_vars(SnapshotDelivered)

\* C15: once the identity is known the display tick is eventually started, if
\* no further user or environment event comes first: on the anonymous path
\* whether the read succeeds, fails or there is no database, on the
\* authenticated path also when the first snapshot is used for the migration.
TickEventuallyRuns ==
  \A n \in 0..MaxEvents :
    (authKnown /\ events = n) ~> (activeTicks > 0 \/ events # n)

\* C15 witness: A's first snapshot was used for the migration, the echo of the
\* merge write was adopted, and the tick runs.
TickEventuallyRunsWitness ==
  /\ currentUser = "A"
  /\ migration = "awaitSet"
  /\ sessionOrigin = "cloud"
  /\ activeTicks = 1

\* C16: a display tick leaves the session in memory as it is and issues no
\* write to the local or the cloud store, also while a write is in flight.
TickIsReadOnly ==
  [][ updateDisplay =>
        UNCHANGED <<session, localRecord, pendingReads, cloud, cloudWrites, inbox,
                    dataToMigrate>> ]_vars

\* C16 witness: while the write of a user's click is in flight the tick has
\* displayed a second of focus, of which the session holds only a part.
TickIsReadOnlyWitness ==
  /\ currentUser = "A"
  /\ cloudWrites # << >> /\ Last(cloudWrites).kind = "user"
  /\ currentState = "focus" /\ totalFocusedMs = Quantum
  /\ display.focus = formatTime(2 * Quantum)

\* No cloud write is in flight and no snapshot is on its way.
Quiescent == cloudWrites = << >> /\ inbox = << >>

\* C17 as stated: while an identity is signed in and its listener attached,
\* once every write has reached the server and every snapshot has been
\* delivered, the session in memory has the totals and state of the identity's
\* cloud record.
QuiescentConsistency ==
  (currentUser # NULL /\ listening /\ Quiescent /\ migration # "rejected") =>
    /\ cloud[currentUser].exists
    /\ SessionTotals(totalFocusedMs, totalDistractedMs, currentState)
         = StoredTotals(cloud[currentUser])

\* C18 as stated: when the migration deletes the local record, no time that
\* the record holds is missing from the payload that was merged into the
\* cloud: the record's totals do not exceed the payload's.
DeletesOnlyWhatItMerged ==
  [][ (Acks("merge") /\ localRecord.exists /\ ~localRecord'.exists) =>
        /\ mergedPayload # << >>
        /\ localRecord.totalFocusedMs <= JSONparse(mergedPayload).totalFocusedMs
        /\ localRecord.totalDistractedMs <= JSONparse(mergedPayload).totalDistractedMs ]_vars

\* C19 as stated: the record the migration writes counts at least the cloud's
\* stored totals plus what the local record displayed when it was staged, the
\* interval in progress included.  The merged record is stamped with the time
\* of the merge, so what it displays then is what it stores.
MigrationKeepsInterval ==
  [][ (Issues("merge") /\ stagedShown # << >> /\ inbox # << >>) =>
        /\ Last(cloudWrites').data.totalFocusedMs
             >= CloudField(Head(inbox), "totalFocusedMs") + stagedShown[1].focus
        /\ Last(cloudWrites').data.totalDistractedMs
             >= CloudField(Head(inbox), "totalDistractedMs") + stagedShown[1].distract ]_vars

\* C20 as stated: between two identity changes, with a clock that does not go
\* back, no step lowers totalFocusedMs or totalDistractedMs in memory.
TotalsMonotone ==
  [][ (~IdentityChange /\ now' >= now) =>
        /\ totalFocusedMs' >= totalFocusedMs
        /\ totalDistractedMs' >= totalDistractedMs ]_vars

====
